---------------------------- MODULE Spec2Model ----------------------------
(***************************************************************************)
(* solve_captcha.py: a command-line script that parses its arguments,      *)
(* optionally silences TensorFlow logging, loads a Keras model, reads and  *)
(* normalises one image, runs one inference and prints the decoded text.   *)
(*                                                                         *)
(* One run of the script is one behaviour.  pc is the position of the      *)
(* interpreter in the __main__ block; every action is one statement group  *)
(* of the script.  Text is a sequence of Unicode code points, so that      *)
(* str() and chr() are modelled by what they compute.                      *)
(***************************************************************************)
EXTENDS Integers, Sequences, FiniteSets, TLC

(***************************************************************************)
(* Program constants (solve_captcha.py:10-12).                             *)
(***************************************************************************)
IMG_WIDTH == 250
IMG_HEIGHT == 50
MODEL_PATH == "captcha_model.keras"

\* cv2.imread's default flag IMREAD_COLOR always yields three 8-bit channels.
Channels == 3
\* Number of classes of each output vector of the trained model (digits and
\* lowercase letters).  The model artifact is not part of the script.
NumClasses == 36

(***************************************************************************)
(* Bounds of the model.                                                    *)
(***************************************************************************)
\* longest command line (tokens after the program name)
MaxArgs == 2
\* input images are squares of side 1..MaxDim, or of exactly / one more than
\* the target size
MaxDim == 2
\* number of pixel patterns of the input images, beyond all-black/all-white
MaxPattern == 1
\* most output slots the model produces
MaxSlots == 2
\* output probabilities are the levels 0..MaxLevel
MaxLevel == 2
\* tie vectors: a tie between class a (a in 0..MaxTie) and the last class
MaxTie == 2

None == "None"

(***************************************************************************)
(* Text: sequences of code points.                                         *)
(***************************************************************************)
Ord0 == 48
OrdA == 97
OrdMinus == 45

\* chr(n): the one-character string of code point n
Chr(n) == <<n>>

RECURSIVE Digits(_)
Digits(n) == IF n < 10 THEN <<Ord0 + n>>
             ELSE Digits(n \div 10) \o <<Ord0 + (n % 10)>>

\* str(n) for an integer n: decimal digits, a leading minus sign if negative
Str(n) == IF n < 0 THEN <<OrdMinus>> \o Digits(-n) ELSE Digits(n)

\* The 36-symbol alphabet 0-9, a-z, as code points in order.
Alphabet == [i \in 1..36 |-> IF i <= 10 THEN Ord0 + (i - 1) ELSE OrdA + (i - 11)]
AlphabetSet == {Alphabet[i] : i \in 1..36}

(***************************************************************************)
(* index_to_char (solve_captcha.py:26-31).                                 *)
(***************************************************************************)
index_to_char_NoOffset(index) ==
    IF index < 10 THEN Str(index) ELSE Chr(index + OrdA)

index_to_char_OffByOne(index) ==
    IF index <= 10 THEN Str(index) ELSE Chr(index - 10 + OrdA)

index_to_char(index) ==
    IF index < 10 THEN Str(index) ELSE Chr(index - 10 + OrdA)


(***************************************************************************)
(* Images.  An 8-bit image is a sequence of rows, a row a sequence of      *)
(* pixels, a pixel a sequence of Channels values in 0..255 (the numpy      *)
(* array of shape (h, w, 3) that cv2.imread returns).  An absent array is  *)
(* the empty sequence.                                                     *)
(***************************************************************************)
Rows(img) == Len(img)
Cols(img) == Len(img[1])
Shape3(img) == <<Len(img), Len(img[1]), Len(img[1][1])>>
Shape4(t) == <<Len(t), Len(t[1]), Len(t[1][1]), Len(t[1][1][1])>>

\* s itself, as an enumerated sequence (evaluated once, not at every use)
Seq1(s) == s \o <<>>

\* the pixel patterns of the input images: black, white, and gradients
PatternPixel(p, r, c, ch) ==
    IF p = 0 THEN 0
    ELSE IF p = 1 THEN 255
    ELSE (p * 97 + r * 31 + c * 17 + ch * 5) % 256

MakeImage(h, w, p) ==
    [r \in 1..h |-> [c \in 1..w |-> [ch \in 1..Channels |-> PatternPixel(p, r, c, ch)]]]

\* sizes <<rows, columns>> of the images on disk: tiny squares, one of exactly
\* the target size, and one larger than the target in both directions
InputSizes == {<<d, d>> : d \in 1..MaxDim}
              \cup {<<IMG_HEIGHT, IMG_WIDTH>>, <<IMG_HEIGHT + 1, IMG_WIDTH + 1>>}
InputPatterns == 0..(MaxPattern + 1)
InputImages == {MakeImage(sz[1], sz[2], p) : sz \in InputSizes, p \in InputPatterns}

(***************************************************************************)
(* cv2.resize(img, (IMG_WIDTH, IMG_HEIGHT)) with the default INTER_LINEAR  *)
(* on 8-bit data (solve_captcha.py:21): bilinear interpolation in fixed    *)
(* point.  For destination index d of n, over a source axis of length len, *)
(* the source coordinate (d + 0.5) * len / n - 0.5 is rounded to float32;  *)
(* its floor is the first tap; its fraction fx gives the weights           *)
(* round(fx * 2048) of the second tap and round((1.f - fx) * 2048) of the  *)
(* first, both rounded half to even.  Horizontally a tap outside the       *)
(* source is clamped and given the whole weight; vertically the weights    *)
(* are kept and the row indices are clipped.                               *)
(*                                                                         *)
(* A float32 is kept as the pair fm, E of the value fm / 2^E; all the      *)
(* arithmetic is on integers below 2^31.                                   *)
(***************************************************************************)
\* round a non-negative rational num/den to the nearest integer, ties to even
RoundHalfEven(num, den) ==
    LET q == num \div den
        r2 == 2 * (num % den)
    IN  IF r2 < den THEN q
        ELSE IF r2 > den THEN q + 1
        ELSE IF q % 2 = 0 THEN q ELSE q + 1

\* x0 clipped to 0..len-1
Clip(x0, len) == IF x0 < 0 THEN 0 ELSE IF x0 >= len THEN len - 1 ELSE x0

\* the binary exponent k of num/den > 0: 2^k <= num/den < 2^(k+1)
RECURSIVE F32ExpUp(_, _, _)
F32ExpUp(num, den, k) ==
    IF den * 2^(k + 1) <= num THEN F32ExpUp(num, den, k + 1) ELSE k

RECURSIVE F32ExpDown(_, _, _)
F32ExpDown(num, den, k) ==
    IF num * 2^(-k) < den THEN F32ExpDown(num, den, k - 1) ELSE k

F32Exp(num, den) ==
    IF num >= den THEN F32ExpUp(num, den, 0) ELSE F32ExpDown(num, den, 0)

\* bits more binary digits of the quotient (m, remainder r) by D
RECURSIVE F32Divide(_, _, _, _)
F32Divide(m, r, D, bits) ==
    IF bits = 0 THEN [m |-> m, r |-> r]
    ELSE IF 2 * r >= D THEN F32Divide(2 * m + 1, 2 * r - D, D, bits - 1)
         ELSE F32Divide(2 * m, 2 * r, D, bits - 1)

\* the 24-bit significand of num/den rounded to float32 (ties to even):
\* float32(num/den) = F32Mant(num, den, k) / 2^(23 - k), k its exponent
F32Mant(num, den, k) ==
    LET N == IF k >= 0 THEN num ELSE num * 2^(-k)
        D == IF k >= 0 THEN den * 2^k ELSE den
        q == F32Divide(1, N - D, D, 23)
    IN  IF 2 * q.r < D THEN q.m
        ELSE IF 2 * q.r > D THEN q.m + 1
        ELSE IF q.m % 2 = 0 THEN q.m ELSE q.m + 1

\* float32(num/den), num/den >= 0, split as cvFloor and fraction fm / 2^E
F32Split(num, den) ==
    IF num = 0 THEN [s |-> 0, fm |-> 0, E |-> 0]
    ELSE LET k == F32Exp(num, den)
             m == F32Mant(num, den, k)
             E == 23 - k
         IN  IF E >= 25 THEN [s |-> 0, fm |-> m, E |-> E]
             ELSE [s |-> m \div 2^E, fm |-> m % 2^E, E |-> E]

\* the float32 difference 1.f - fm / 2^E for 0 <= fm / 2^E <= 1: exact when
\* E <= 24, else rounded to a multiple of 2^-24 (ties to even)
F32OneMinus(fm, E) ==
    IF E <= 24 THEN [fm |-> 2^E - fm, E |-> E]
    ELSE LET j   == E - 24
             t   == fm \div 2^j
             rem == fm % 2^j
             up  == 2^24 - t
         IN  [fm |-> IF 2 * rem < 2^j THEN up
                     ELSE IF 2 * rem > 2^j THEN up - 1
                     ELSE IF up % 2 = 0 THEN up ELSE up - 1,
              E |-> 24]

\* saturate_cast<short>(fm / 2^E * 2048)
Weight(fm, E) ==
    IF E <= 11 THEN fm * 2^(11 - E) ELSE RoundHalfEven(fm, 2^(E - 11))

\* vertical taps: the rows (0-based) and their weights for destination row d
VTap(d, n, len) ==
    LET num == (2 * d + 1) * len - n
        den == 2 * n
        c   == F32Split(IF num < 0 THEN -num ELSE num, den)
        \* a negative coordinate lies in (-0.5, 0): floor -1, fraction 1 + fy
        f   == IF num < 0 THEN F32OneMinus(c.fm, c.E) ELSE [fm |-> c.fm, E |-> c.E]
        s   == IF num < 0 THEN -1 ELSE c.s
        g   == F32OneMinus(f.fm, f.E)
    IN  [r0 |-> Clip(s, len), r1 |-> Clip(s + 1, len),
         b0 |-> Weight(g.fm, g.E),
         b1 |-> Weight(f.fm, f.E)]

\* horizontal taps: first tap (0-based) and the two weights for destination d
Tap(d, n, len) ==
    LET num == (2 * d + 1) * len - n
        den == 2 * n
        c   == F32Split(IF num < 0 THEN 0 ELSE num, den)
        g   == F32OneMinus(c.fm, c.E)
    IN  IF num < 0 THEN [s |-> 0, a0 |-> 2048, a1 |-> 0]
        ELSE IF c.s >= len - 1 THEN [s |-> len - 1, a0 |-> 2048, a1 |-> 0]
        ELSE [s |-> c.s, a0 |-> Weight(g.fm, g.E), a1 |-> Weight(c.fm, c.E)]

Min(a, b) == IF a < b THEN a ELSE b

cv2_resize(img, width, height) ==
    LET h  == Rows(img)
        w  == Cols(img)
        xt == Seq1([dx \in 1..width |-> Tap(dx - 1, width, w)])
        yt == Seq1([dy \in 1..height |-> VTap(dy - 1, height, h)])
        \* horizontal pass of source row r, scaled by 2^11
        hrow(r) == Seq1([dx \in 1..width |-> Seq1([ch \in 1..Channels |->
                      img[r][xt[dx].s + 1][ch] * xt[dx].a0
                      + img[r][Min(xt[dx].s + 2, w)][ch] * xt[dx].a1])])
        hall == Seq1([r \in 1..h |-> hrow(r)])
    IN  [dy \in 1..height |-> [dx \in 1..width |-> [ch \in 1..Channels |->
            LET s0 == hall[yt[dy].r0 + 1][dx][ch] \div 16
                s1 == hall[yt[dy].r1 + 1][dx][ch] \div 16
            IN  (((yt[dy].b0 * s0) \div 65536) + ((yt[dy].b1 * s1) \div 65536) + 2) \div 4]]]

\* faulty variant: an image no larger than the target is passed through unresized
Resize_SkipSmall(img) ==
    IF Rows(img) <= IMG_HEIGHT /\ Cols(img) <= IMG_WIDTH THEN img
    ELSE cv2_resize(img, IMG_WIDTH, IMG_HEIGHT)

\* line 21 of preprocess_image: the size argument is (width, height)
Resize(img) == cv2_resize(img, IMG_WIDTH, IMG_HEIGHT)

(***************************************************************************)
(* img.astype(np.float32) / 255.0 and np.expand_dims(img, axis=0)          *)
(* (solve_captcha.py:22-23).  A float is the rational [n, d], n / d.       *)
(***************************************************************************)
Frac(n, d) == [n |-> n, d |-> d]

Normalize(img) ==
    [r \in 1..Rows(img) |-> [c \in 1..Cols(img) |-> [ch \in 1..Len(img[r][c]) |->
        Frac(img[r][c][ch], 255)]]]

ExpandDims(img) == <<img>>

(***************************************************************************)
(* np.argmax(pred): the index (0-based) of the first occurrence of the     *)
(* maximum, found by a left-to-right scan.  pred is a 1-based sequence.    *)
(***************************************************************************)
RECURSIVE ArgmaxScanLast(_, _, _)
ArgmaxScanLast(pred, i, best) ==
    IF i > Len(pred) THEN best - 1
    ELSE ArgmaxScanLast(pred, i + 1, IF pred[i] >= pred[best] THEN i ELSE best)

RECURSIVE ArgmaxScan(_, _, _)
ArgmaxScan(pred, i, best) ==
    IF i > Len(pred) THEN best - 1
    ELSE ArgmaxScan(pred, i + 1, IF pred[i] > pred[best] THEN i ELSE best)

Argmax_LastMax(pred) == ArgmaxScanLast(pred, 2, 1)

Argmax(pred) == ArgmaxScan(pred, 2, 1)

\* "".join(strs)
RECURSIVE Join(_)
Join(strs) == IF strs = <<>> THEN <<>> ELSE Head(strs) \o Join(Tail(strs))

\* lines 38-39 of predict_captcha
Decode(predictions) ==
    Join([i \in 1..Len(predictions) |-> index_to_char(Argmax(predictions[i]))])

(***************************************************************************)
(* The outputs of the trained model: one vector of NumClasses levels per   *)
(* output slot.  One-hot vectors for every class, flat vectors (every      *)
(* class at the same level, however low) and ties between two classes.     *)
(* Outputs of one or two slots take every vector in every slot; longer     *)
(* outputs take every vector in the first slot and the ties in the others. *)
(***************************************************************************)
Classes == 0..(NumClasses - 1)
OneHot(a) == Seq1([i \in 1..NumClasses |-> IF i = a + 1 THEN MaxLevel ELSE 0])
Flat(l) == Seq1([i \in 1..NumClasses |-> l])
Tie(a) == Seq1([i \in 1..NumClasses |->
              IF i = a + 1 \/ i = NumClasses THEN MaxLevel ELSE 0])
OutputVectors == {OneHot(a) : a \in Classes} \cup {Flat(l) : l \in 0..MaxLevel}
                 \cup {Tie(a) : a \in 0..MaxTie}

RECURSIVE SeqsOfLen(_, _)
SeqsOfLen(S, n) ==
    IF n = 0 THEN {<<>>}
    ELSE {Append(s, e) : s \in SeqsOfLen(S, n - 1), e \in S}

TailVectors == {Tie(a) : a \in 0..MaxTie}

OutputsOfLen(n) ==
    IF n <= 2 THEN SeqsOfLen(OutputVectors, n)
    ELSE {s \o t : s \in SeqsOfLen(OutputVectors, 1), t \in SeqsOfLen(TailVectors, n - 1)}

ModelOutputs == UNION {OutputsOfLen(n) : n \in 1..MaxSlots}

(***************************************************************************)
(* The command line.  "-h" and "--verbose" are the parser's options; every *)
(* other token is a positional (the empty string included).                *)
(***************************************************************************)
OptHelp == "-h"
OptVerbose == "--verbose"
GoodPath == "captcha.png"
MissingPath == "/no/such/file.png"
Positionals == {"", GoodPath, MissingPath}
Tokens == {OptHelp, OptVerbose} \cup Positionals
CommandLines == UNION {SeqsOfLen(Tokens, n) : n \in 0..MaxArgs}

\* the paths cv2.imread can decode
ReadablePaths == {GoodPath}

NoArgs == [verbose |-> FALSE, image_path |-> None]

(***************************************************************************)
(* argparse.ArgumentParser.parse_args for the parser of lines 43-45: one   *)
(* store_true option --verbose, one required positional image_path, and    *)
(* the -h option argparse adds.  The tokens are consumed left to right;    *)
(* -h prints the help and exits at once; the first positional fills        *)
(* image_path and further ones are left over.                              *)
(***************************************************************************)
RECURSIVE ScanArgs(_, _, _)
ScanArgs(av, i, ns) ==
    IF i > Len(av) THEN ns
    ELSE IF av[i] = OptHelp THEN [ns EXCEPT !.help = TRUE]
    ELSE IF av[i] = OptVerbose THEN ScanArgs(av, i + 1, [ns EXCEPT !.verbose = TRUE])
    ELSE IF ns.image_path = None
         THEN ScanArgs(av, i + 1, [ns EXCEPT !.image_path = av[i]])
         ELSE ScanArgs(av, i + 1, [ns EXCEPT !.extras = Append(@, av[i])])

ParseArgs(av) ==
    LET ns == ScanArgs(av, 1, [verbose |-> FALSE, image_path |-> None,
                               extras |-> <<>>, help |-> FALSE])
    IN  IF ns.help THEN [outcome |-> "help", args |-> NoArgs]
        ELSE IF ns.image_path = None THEN [outcome |-> "required", args |-> NoArgs]
        ELSE IF ns.extras # <<>> THEN [outcome |-> "unrecognized", args |-> NoArgs]
        ELSE [outcome |-> "ok",
              args |-> [verbose |-> ns.verbose, image_path |-> ns.image_path]]


(***************************************************************************)
(* The state of one run of the script.                                     *)
(***************************************************************************)
VARIABLES
    pc,             \* the statement of __main__ / predict_captcha to run next
    argv,           \* sys.argv[1:], the command line of the run
    args,           \* the namespace parse_args returned
    environ,        \* os.environ.get("TF_CPP_MIN_LOG_LEVEL")
    tf,             \* TRUE once tensorflow is imported
    model,          \* the global model handle, None before load_model
    img,            \* preprocess_image's local img
    img_input,      \* predict_captcha's local img_input
    predictions,    \* what model.predict returned
    predicted_text, \* the decoded string
    stdout,         \* the lines written to standard output
    stderr,         \* the lines written to standard error
    exit_status,    \* the process's exit status, Running until it exits
    log             \* the library calls and writes made so far, in order

vars == <<pc, argv, args, environ, tf, model, img, img_input, predictions,
          predicted_text, stdout, stderr, exit_status, log>>

Running == -1
EnvUnset == "unset"
\* values of TF_CPP_MIN_LOG_LEVEL the process may inherit
InheritedEnv == {EnvUnset, "0", "3"}

Line(kind, text) == [kind |-> kind, text |-> text]

\* sys.exit(status) and an exception nobody handles (status 1, traceback)
Exit(status) == /\ exit_status' = status
                /\ pc' = "exited"

Raise(exc) == /\ stderr' = Append(stderr, Line("traceback", exc))
              /\ Exit(1)

Init ==
    /\ pc = "parse_args"
    /\ argv \in CommandLines
    /\ args = NoArgs
    /\ environ \in InheritedEnv
    /\ tf = FALSE
    /\ model = None
    /\ img = <<>>
    /\ img_input = <<>>
    /\ predictions = <<>>
    /\ predicted_text = <<>>
    /\ stdout = <<>>
    /\ stderr = <<>>
    /\ exit_status = Running
    /\ log = <<>>

(***************************************************************************)
(* __main__, lines 43-47: build the parser and parse the command line.     *)
(* argparse prints the help to stdout and exits 0, or prints the usage and *)
(* an error to stderr and exits 2.                                         *)
(***************************************************************************)
ParseCommandLine ==
    /\ pc = "parse_args"
    /\ LET res == ParseArgs(argv)
       IN  /\ log' = Append(log, "parse_args")
           /\ \/ /\ res.outcome = "ok"
                 /\ args' = res.args
                 /\ pc' = "set_env"
                 /\ UNCHANGED <<stdout, stderr, exit_status>>
              \/ /\ res.outcome = "help"
                 /\ stdout' = Append(stdout, Line("help", "usage"))
                 /\ Exit(0)
                 /\ UNCHANGED <<args, stderr>>
              \/ /\ res.outcome \in {"required", "unrecognized"}
                 /\ stderr' = Append(stderr, Line("argparse_error", res.outcome))
                 /\ Exit(2)
                 /\ UNCHANGED <<args, stdout>>
    /\ UNCHANGED <<argv, environ, tf, model, img, img_input, predictions,
                   predicted_text>>

(***************************************************************************)
(* lines 49-51: suppress TensorFlow's logging unless --verbose.            *)
(***************************************************************************)
SetEnvironFor_Always(a) == TRUE

SetEnvironFor(a) == ~a.verbose

SetEnv ==
    /\ pc = "set_env"
    /\ IF SetEnvironFor(args)
       THEN /\ environ' = "3"
            /\ log' = Append(log, "setenv")
       ELSE UNCHANGED <<environ, log>>
    /\ pc' = "import_tf"
    /\ UNCHANGED <<argv, args, tf, model, img, img_input, predictions,
                   predicted_text, stdout, stderr, exit_status>>

(***************************************************************************)
(* line 53: import tensorflow; an ImportError is not handled.              *)
(***************************************************************************)
ImportTF ==
    /\ pc = "import_tf"
    /\ \/ /\ tf' = TRUE
          /\ log' = Append(log, "import_tf")
          /\ pc' = "check_path"
          /\ UNCHANGED <<stderr, exit_status>>
       \/ /\ Raise("ImportError")
          /\ UNCHANGED <<tf, log>>
    /\ UNCHANGED <<argv, args, environ, model, img, img_input, predictions,
                   predicted_text, stdout>>

(***************************************************************************)
(* lines 55-57: an empty image path prints the usage and exits 1.          *)
(***************************************************************************)
PathMissing(a) == a.image_path = ""

\* faulty variant: the image is read before the model is loaded
AfterCheckPath_ImageFirst == "imread"

\* the statement after the check: line 59, load_model, precedes line 60
AfterCheckPath == "load_model"

CheckPath ==
    /\ pc = "check_path"
    /\ IF PathMissing(args)
       THEN /\ stdout' = Append(stdout, Line("usage", "[--verbose] <image_path>"))
            /\ Exit(1)
       ELSE /\ pc' = AfterCheckPath
            /\ UNCHANGED <<stdout, exit_status>>
    /\ UNCHANGED <<argv, args, environ, tf, model, img, img_input, predictions,
                   predicted_text, stderr, log>>

(***************************************************************************)
(* line 59: model = tf.keras.models.load_model(MODEL_PATH); a missing or   *)
(* unreadable artifact raises, and nothing handles it.                     *)
(***************************************************************************)
LoadModel ==
    /\ pc = "load_model"
    /\ log' = Append(log, "load_model")
    /\ \/ /\ model' = MODEL_PATH
          /\ pc' = "imread"
          /\ UNCHANGED <<stderr, exit_status>>
       \/ /\ Raise("OSError")
          /\ UNCHANGED model
    /\ UNCHANGED <<argv, args, environ, tf, img, img_input, predictions,
                   predicted_text, stdout>>

(***************************************************************************)
(* predict_captcha -> preprocess_image, lines 17-20: read the image; None  *)
(* prints the error with the path and exits 1.                             *)
(***************************************************************************)
\* faulty variant: sys.exit() without a status
ImageNotFound_ExitZero(img_path) ==
    /\ stdout' = Append(stdout, Line("image_error", img_path))
    /\ Exit(0)

\* lines 19-20
ImageNotFound(img_path) ==
    /\ stdout' = Append(stdout, Line("image_error", img_path))
    /\ Exit(1)

Imread ==
    /\ pc = "imread"
    /\ log' = Append(log, "imread")
    /\ IF args.image_path \in ReadablePaths
       THEN /\ img' \in InputImages
            /\ pc' = "resize"
            /\ UNCHANGED <<stdout, exit_status>>
       ELSE /\ ImageNotFound(args.image_path)
            /\ UNCHANGED img
    /\ UNCHANGED <<argv, args, environ, tf, model, img_input, predictions,
                   predicted_text, stderr>>

\* line 21
ResizeImage ==
    /\ pc = "resize"
    /\ img' = Resize(img)
    /\ log' = Append(log, "resize")
    /\ pc' = "normalize"
    /\ UNCHANGED <<argv, args, environ, tf, model, img_input, predictions,
                   predicted_text, stdout, stderr, exit_status>>

\* lines 22-23 and the return into predict_captcha (line 36)
NormalizeImage ==
    /\ pc = "normalize"
    /\ img_input' = ExpandDims(Normalize(img))
    /\ img' = <<>>
    /\ pc' = "predict"
    /\ UNCHANGED <<argv, args, environ, tf, model, predictions,
                   predicted_text, stdout, stderr, exit_status, log>>

(***************************************************************************)
(* predict_captcha, lines 37-39, and the return to line 60: one inference, *)
(* then the decoding.  A failing inference raises, and nothing handles it. *)
(***************************************************************************)
\* line 60: verbose=1 if args.verbose else 0
PredictVerbosity(a) == IF a.verbose THEN 1 ELSE 0

\* model.predict(..., verbose=v) writes its progress bar to stdout when v = 1
KerasProgress(v) == IF v = 1 THEN <<Line("progress", "1/1")>> ELSE <<>>

\* faulty variant: the model is loaded again by every call of predict_captcha
Predict_Reloads ==
    /\ pc = "predict"
    /\ log' = log \o <<"load_model", "predict">>
    /\ img_input' = <<>>
    /\ \/ /\ predictions' \in ModelOutputs
          /\ predicted_text' = Decode(predictions')
          /\ stdout' = stdout \o KerasProgress(PredictVerbosity(args))
          /\ pc' = "print"
          /\ UNCHANGED <<stderr, exit_status>>
       \/ /\ Raise("InvalidArgumentError")
          /\ UNCHANGED <<predictions, predicted_text, stdout>>
    /\ UNCHANGED <<argv, args, environ, tf, model, img>>

Predict ==
    /\ pc = "predict"
    /\ log' = Append(log, "predict")
    /\ img_input' = <<>>
    /\ \/ /\ predictions' \in ModelOutputs
          /\ predicted_text' = Decode(predictions')
          /\ stdout' = stdout \o KerasProgress(PredictVerbosity(args))
          /\ pc' = "print"
          /\ UNCHANGED <<stderr, exit_status>>
       \/ /\ Raise("InvalidArgumentError")
          /\ UNCHANGED <<predictions, predicted_text, stdout>>
    /\ UNCHANGED <<argv, args, environ, tf, model, img>>

\* faulty variant: the text is also printed by a leftover debugging print
PrintResult_Twice ==
    /\ pc = "print"
    /\ stdout' = stdout \o <<Line("prediction", predicted_text),
                              Line("prediction", predicted_text)>>
    /\ log' = Append(log, "print")
    /\ Exit(0)
    /\ UNCHANGED <<argv, args, environ, tf, model, img, img_input, predictions,
                   predicted_text, stderr>>

\* line 61, and the end of the script
PrintResult ==
    /\ pc = "print"
    /\ stdout' = Append(stdout, Line("prediction", predicted_text))
    /\ log' = Append(log, "print")
    /\ Exit(0)
    /\ UNCHANGED <<argv, args, environ, tf, model, img, img_input, predictions,
                   predicted_text, stderr>>

Next ==
    \/ ParseCommandLine
    \/ SetEnv
    \/ ImportTF
    \/ CheckPath
    \/ LoadModel
    \/ Imread
    \/ ResizeImage
    \/ NormalizeImage
    \/ Predict
    \/ PrintResult

Spec == Init /\ [][Next]_vars

(***************************************************************************)
(* Vocabulary of the properties.                                           *)
(***************************************************************************)
Exited == pc = "exited"
Called(e) == \E i \in 1..Len(log) : log[i] = e
Count(e) == Cardinality({i \in 1..Len(log) : log[i] = e})
\* position of the first e in the log, 0 if there is none
Pos(e) == IF Called(e) THEN CHOOSE i \in 1..Len(log) :
                               log[i] = e /\ \A j \in 1..(i - 1) : log[j] # e
          ELSE 0
Printed(stream, kind) == {i \in 1..Len(stream) : stream[i].kind = kind}
\* parse_args returned a namespace
Parsed == args # NoArgs
\* --verbose is on the command line
VerboseGiven == \E i \in 1..Len(argv) : argv[i] = OptVerbose
\* the decoding of line 38-39 has run
Decoded == pc \in {"print", "exited"} /\ Called("predict") /\ predictions # <<>>
\* the script ran to its last line
Completed == Exited /\ exit_status = 0 /\ Parsed
\* smallest index (0-based) at which pred attains its maximum
FirstMaxIndex(pred) ==
    CHOOSE k \in 0..(Len(pred) - 1) :
        /\ \A j \in 1..Len(pred) : pred[j] <= pred[k + 1]
        /\ \A j \in 1..k : pred[j] < pred[k + 1]

(***************************************************************************)
(* C1: whenever cv2.imread has been called on a path it cannot read, the   *)
(* run has ended with exit status 1, standard output holds the error       *)
(* message with that path, and model.predict was not called.               *)
(***************************************************************************)
C1_UnreadableImageExitsOne ==
    (Called("imread") /\ args.image_path \notin ReadablePaths) =>
        /\ Exited
        /\ exit_status = 1
        /\ \E i \in Printed(stdout, "image_error") : stdout[i].text = args.image_path
        /\ ~Called("predict")
        /\ predictions = <<>>

C1_Witness ==
    /\ Exited
    /\ Called("imread")
    /\ args.image_path = MissingPath
    /\ stdout = <<Line("image_error", MissingPath)>>

(***************************************************************************)
(* C2: a run whose command line has no positional image path (argparse     *)
(* reported the required argument missing) has ended with exit status 1,   *)
(* an error message printed, and load_model never called.                  *)
(***************************************************************************)
C2_NoPositionalExitsOne ==
    (\E i \in Printed(stderr, "argparse_error") : stderr[i].text = "required") =>
        /\ Exited
        /\ exit_status = 1
        /\ ~Called("load_model")

(***************************************************************************)
(* C3: once decoded, the text has one character per output slot of the     *)
(* model, every character is one of 0-9, a-z, and the line printed at the  *)
(* end of the run is that text.                                            *)
(***************************************************************************)
C3_TextLengthAndAlphabet ==
    /\ Decoded =>
        /\ Len(predicted_text) = Len(predictions)
        /\ \A i \in 1..Len(predicted_text) : predicted_text[i] \in AlphabetSet
    /\ \A i \in Printed(stdout, "prediction") :
        /\ Len(stdout[i].text) = Len(predictions)
        /\ \A j \in 1..Len(stdout[i].text) : stdout[i].text[j] \in AlphabetSet

C3_Witness ==
    /\ Completed
    /\ Len(predictions) = MaxSlots
    /\ stdout[Len(stdout)] = Line("prediction", predicted_text)
    /\ predicted_text[1] = 122
    /\ predicted_text[MaxSlots] = 48

(***************************************************************************)
(* C4: on the class indices the decoder meets (each of 0..35 occurs),      *)
(* index_to_char yields exactly one character, the index-th symbol of      *)
(* 0-9 a-z in order, and distinct indices yield distinct characters.       *)
(***************************************************************************)
C4_IndexToCharInjective ==
    Decoded =>
        LET ks == Seq1([i \in 1..Len(predictions) |-> Argmax(predictions[i])])
            cs == Seq1([i \in 1..Len(predictions) |-> index_to_char(ks[i])])
        IN  \A i \in 1..Len(predictions) :
                /\ ks[i] \in Classes
                /\ Len(cs[i]) = 1
                /\ cs[i] = <<Alphabet[ks[i] + 1]>>
                /\ (ks[i] = 0 => cs[i] = <<48>>)
                /\ (ks[i] = 9 => cs[i] = <<57>>)
                /\ (ks[i] = 10 => cs[i] = <<97>>)
                /\ (ks[i] = 35 => cs[i] = <<122>>)
                /\ \A j \in 1..Len(predictions) : cs[j] = cs[i] => ks[j] = ks[i]

C4_Witness ==
    /\ Decoded
    /\ Len(predictions) = 2
    /\ Argmax(predictions[1]) = 9
    /\ Argmax(predictions[2]) = 10
    /\ predicted_text = <<57, 97>>

(***************************************************************************)
(* C5 as stated: every run, once ended, has loaded the model exactly once  *)
(* and performed exactly one inference.                                    *)
(***************************************************************************)
C5_ExactlyOnceInEveryRun ==
    Exited => (Count("load_model") = 1 /\ Count("predict") = 1)

(***************************************************************************)
(* C5 amended: in every run load_model and model.predict are each called   *)
(* at most once, the load before the image is read and before inference;   *)
(* a run that completes has called each exactly once; and the model        *)
(* handle, once set, is never changed.                                     *)
(***************************************************************************)
C5_OnceInvariant ==
    /\ Count("load_model") <= 1
    /\ Count("predict") <= 1
    /\ model \in {None, MODEL_PATH}
    /\ Called("imread") => (model = MODEL_PATH /\ Pos("load_model") < Pos("imread"))
    /\ Called("predict") => (model = MODEL_PATH /\ Pos("load_model") < Pos("predict"))
    /\ Completed => (Count("load_model") = 1 /\ Count("predict") = 1)

C5_LoadedOnceInferredOnce ==
    /\ []C5_OnceInvariant
    /\ [][model # None => model' = model]_vars

C5_Witness ==
    /\ Completed
    /\ model = MODEL_PATH
    /\ Count("load_model") = 1
    /\ Count("predict") = 1

(***************************************************************************)
(* C6: a run that completes has written the decoded text to standard       *)
(* output exactly once; a run that has not completed (still running, or    *)
(* ended by help, an argument error, the empty path, a failed import or    *)
(* model load, an unreadable image or a failed inference) has written no   *)
(* prediction line and nothing that is a piece of one.                     *)
(***************************************************************************)
C6_PredictionPrintedOnce ==
    /\ Completed =>
        /\ Cardinality(Printed(stdout, "prediction")) = 1
        /\ stdout[Len(stdout)] = Line("prediction", predicted_text)
        /\ \A i \in 1..(Len(stdout) - 1) : stdout[i].kind = "progress"
        /\ predicted_text = Decode(predictions)
    /\ ~Completed =>
        /\ Printed(stdout, "prediction") = {}
        /\ Printed(stderr, "prediction") = {}
    /\ (Exited /\ exit_status # 0) =>
        \A i \in 1..Len(stdout) : stdout[i].kind \in {"usage", "image_error"}

C6_Witness ==
    /\ Completed
    /\ Len(predicted_text) = MaxSlots
    /\ stdout = <<Line("prediction", predicted_text)>>
    /\ ~args.verbose

(***************************************************************************)
(* C7 as stated: a run, once ended, has set TF_CPP_MIN_LOG_LEVEL to "3"    *)
(* exactly if --verbose was not on its command line, has set it before the *)
(* import of tensorflow, and has not written it if --verbose was given.    *)
(***************************************************************************)
C7_SetIffNotVerbose ==
    /\ Exited => (Called("setenv") <=> ~VerboseGiven)
    /\ Called("setenv") => environ = "3"
    /\ (Called("setenv") /\ Called("import_tf")) => Pos("setenv") < Pos("import_tf")
    /\ VerboseGiven => ~Called("setenv")

\* what the program has written so far, and when
C7_WrittenInvariant ==
    /\ Count("setenv") <= 1
    /\ Parsed => (args.verbose <=> VerboseGiven)
    /\ Called("setenv") => (Parsed /\ ~VerboseGiven /\ environ = "3")
    /\ (Called("setenv") /\ Called("import_tf")) => Pos("setenv") < Pos("import_tf")
    /\ (Parsed /\ pc \notin {"parse_args", "set_env"}) =>
            (Called("setenv") <=> ~VerboseGiven)
    /\ tf => (Called("setenv") <=> ~VerboseGiven)

\* the variable changes only by the write of line 51, and a run with
\* --verbose or one that ends inside parse_args leaves it as inherited
C7_WriteStep ==
    /\ environ' # environ =>
            /\ pc = "set_env" /\ ~VerboseGiven /\ ~tf
            /\ environ' = "3"
    /\ Count("setenv")' # Count("setenv") =>
            /\ pc = "set_env" /\ ~VerboseGiven /\ ~tf
            /\ environ' = "3"
    /\ (VerboseGiven \/ (pc = "parse_args" /\ Exited')) =>
            (environ' = environ /\ ~Called("setenv")')

(***************************************************************************)
(* C7, amended: in a run whose command line parses, the program has set    *)
(* TF_CPP_MIN_LOG_LEVEL to "3" by line 53 exactly if --verbose was not     *)
(* given, once and before tensorflow is imported; with --verbose, and in a *)
(* run that ends inside parse_args, it never writes the variable, which    *)
(* keeps the value the process inherited (possibly "3" already).           *)
(***************************************************************************)
C7_EnvSetIffParsedNotVerbose ==
    /\ []C7_WrittenInvariant
    /\ [][C7_WriteStep]_vars

C7_Witness ==
    /\ tf
    /\ ~VerboseGiven
    /\ environ = "3"
    /\ log = <<"parse_args", "setenv", "import_tf">>

(***************************************************************************)
(* C8: whatever the size of the image read, after line 21 img has          *)
(* IMG_HEIGHT rows, IMG_WIDTH columns and 3 channels of values 0..255, and *)
(* the tensor handed to the model has shape (1, 50, 250, 3), each element  *)
(* being the pixel at its place divided by 255, hence within [0, 1].       *)
(***************************************************************************)
C8_ResizedInvariant ==
    /\ pc = "normalize" =>
        /\ Shape3(img) = <<IMG_HEIGHT, IMG_WIDTH, 3>>
        /\ \A r \in 1..IMG_HEIGHT, c \in 1..IMG_WIDTH :
             /\ Len(img[r]) = IMG_WIDTH
             /\ Len(img[r][c]) = 3
             /\ \A ch \in 1..3 : img[r][c][ch] \in 0..255
    /\ pc = "predict" =>
        /\ Shape4(img_input) = <<1, 50, 250, 3>>
        /\ \A r \in 1..50, c \in 1..250 :
             /\ Len(img_input[1][r]) = 250
             /\ Len(img_input[1][r][c]) = 3
             /\ \A ch \in 1..3 :
                  LET v == img_input[1][r][c][ch]
                  IN  v.d = 255 /\ v.n \in 0..255 /\ 0 <= v.n /\ v.n <= v.d

C8_NormalizeStep ==
    pc = "normalize" =>
        /\ pc' = "predict"
        /\ Len(img_input') = 1
        /\ \A r \in 1..IMG_HEIGHT, c \in 1..IMG_WIDTH, ch \in 1..3 :
             LET v == img_input'[1][r][c][ch]
             IN  v.n * 255 = img[r][c][ch] * v.d

C8_TensorShapeAndRange ==
    /\ []C8_ResizedInvariant
    /\ [][C8_NormalizeStep]_vars
    /\ [][pc = "resize" => (pc' = "normalize" /\ Shape3(img') = <<50, 250, 3>>)]_vars

C8_Witness ==
    /\ pc = "predict"
    /\ Shape4(img_input) = <<1, 50, 250, 3>>
    /\ \E c \in 1..IMG_WIDTH : img_input[1][1][c][1].n \notin {0, 255}

(***************************************************************************)
(* C9: the decoded text is a function of the model output alone: it has    *)
(* one character per slot, in slot order, the i-th being index_to_char of  *)
(* the smallest index at which slot i's vector attains its maximum, for    *)
(* ties and for vectors whose maximum is the lowest level alike.           *)
(***************************************************************************)
C9_DecodeFirstMaxInSlotOrder ==
    Decoded =>
        /\ Len(predicted_text) = Len(predictions)
        /\ \A i \in 1..Len(predictions) :
             <<predicted_text[i]>> = index_to_char(FirstMaxIndex(predictions[i]))
        /\ predicted_text =
             Join([i \in 1..Len(predictions) |->
                     index_to_char(FirstMaxIndex(predictions[i]))])

C9_Witness ==
    /\ Decoded
    /\ predictions = <<Tie(1), Flat(0)>>
    /\ predicted_text = <<49, 48>>

(***************************************************************************)
(* C10: the image is read only after load_model has returned a model; the  *)
(* image error (with exit status 1) is printed only in such runs; a run    *)
(* whose model load failed never reads the image nor prints the image      *)
(* error; and the usage message (exit status 1) is printed only for an     *)
(* image path that is present but empty, after tensorflow is imported and  *)
(* with load_model not called.                                             *)
(***************************************************************************)
C10_FailureCheckOrder ==
    /\ Called("imread") =>
        /\ model = MODEL_PATH
        /\ Called("load_model")
        /\ Pos("load_model") < Pos("imread")
    /\ Printed(stdout, "image_error") # {} =>
        /\ model = MODEL_PATH
        /\ Called("load_model")
        /\ exit_status = 1
    /\ (\E i \in Printed(stderr, "traceback") : stderr[i].text = "OSError") =>
        /\ Exited
        /\ exit_status = 1
        /\ model = None
        /\ ~Called("imread")
        /\ Printed(stdout, "image_error") = {}
    /\ Printed(stdout, "usage") # {} =>
        /\ Parsed
        /\ args.image_path = ""
        /\ exit_status = 1
        /\ tf
        /\ Called("import_tf")
        /\ ~Called("load_model")
        /\ model = None

C10_Witness ==
    /\ Exited
    /\ args.image_path = MissingPath
    /\ model = None
    /\ stderr = <<Line("traceback", "OSError")>>
    /\ stdout = <<>>

=============================================================================
